---- MODULE Spec2Model ----
(***************************************************************************)
(* The i18n manager of src/config.js (class I18n, lines 513-817): the      *)
(* language registry, the saved preference, the bundle loads of            *)
(* setLanguage with their fallback to defaultLang, applyLanguage and the   *)
(* dot-path lookup t/get.                                                  *)
(*                                                                         *)
(* JavaScript runs one task at a time, so a handler is one action from an  *)
(* await to the next.  The two awaits of a load (fetch, response.json())   *)
(* touch no state between them and are one step, Respond.                  *)
(***************************************************************************)
EXTENDS Integers, Sequences, FiniteSets, TLC

VARIABLES
  pc,            \* position of init(): "start", "loaded", "initial", "catch", "done"
  languages,     \* this.languages
  defaultLang,   \* this.defaultLang
  currentLang,   \* this.currentLang ("null" is null)
  translations,  \* this.translations
  docLang,       \* document.documentElement.lang
  docDir,        \* document.documentElement.dir
  flag,          \* #currentLangFlag src
  storage,       \* localStorage['preferred_language'] ("null" when absent)
  storageOK,     \* whether localStorage is usable
  browserLang,   \* navigator.language as its subtags
  clicksLeft,    \* the clicks on switcher options the user still makes
  calls,         \* the top-level setLanguage calls, in the order issued
  events,        \* the number of languageChanged events dispatched so far
  lastEvent,     \* the detail of the last languageChanged event
  switcher,      \* data-lang of the options of .lang-dropdown
  ticker,        \* the texts of the spans of #tickerTrack
  page,          \* what each marked node of the page shows
  shown,         \* whether .lang-dropdown has the class 'show'
  lastLoad,      \* the bundle load that completed last (history)
  looked         \* the last lookup made by a content consumer

vars == <<pc, languages, defaultLang, currentLang, translations, docLang, docDir,
          flag, storage, storageOK, browserLang, clicksLeft, calls, events,
          lastEvent,
          switcher, ticker, page, shown, lastLoad, looked>>

\* ------------------------------------------------------------------ bounds
MaxClicks == 1     \* clicks on the switcher in a run of Spec
MaxRaceClicks == 2 \* clicks on the switcher in a run of RaceSpec
MaxLoads == 3      \* bundle loads one call may issue before the model stops it

\* ------------------------------------------------------------------- data
Codes == {"ar", "en", "fr"}
Dirs == {"rtl", "ltr"}

\* the flag asset of a language's manifest entry
FlagURL(c) ==
  CASE c = "ar" -> "eg.png"
    [] c = "en" -> "gb.png"
    [] OTHER -> "fr.png"

Descriptor(c, d) == [code |-> c, dir |-> d, flag |-> FlagURL(c)]

\* the hardcoded list of loadLanguages' catch
FallbackLanguages ==
  <<Descriptor("ar", "rtl"), Descriptor("en", "ltr")>>

ListOf(l) == [kind |-> "list", list |-> l]
Undefined == [kind |-> "undefined", list |-> <<>>]

\* What the manifest request can produce.  kind "neterr": fetch rejects;
\* "unparseable": response.json() rejects; "json": a parsed body, which is
\* null (isNull) or an object with or without languages / defaultLang.
ManifestResponse(k, n, hl, l, d) ==
  [kind |-> k, isNull |-> n, hasLanguages |-> hl, languages |-> l, defaultLang |-> d]

Manifests ==
  { ManifestResponse("neterr", FALSE, FALSE, <<>>, ""),
    ManifestResponse("unparseable", FALSE, FALSE, <<>>, ""),
    ManifestResponse("json", TRUE, FALSE, <<>>, ""),
    ManifestResponse("json", FALSE, FALSE, <<>>, ""),
    ManifestResponse("json", FALSE, TRUE,
       <<Descriptor("ar", "rtl"), Descriptor("en", "ltr")>>, "ar"),
    ManifestResponse("json", FALSE, TRUE,
       <<Descriptor("ar", "rtl"), Descriptor("en", "ltr"), Descriptor("fr", "ltr")>>, "en"),
    ManifestResponse("json", FALSE, TRUE,
       <<Descriptor("en", "ltr"), Descriptor("fr", "ltr")>>, "") }

\* A translation document.  src is the language file it was served from;
\* kind "full" has meta {lang, dir}, "nometa" is an object without meta,
\* "null" is the JSON document null, "empty" is the constructor's {}.
Bundle(s, k, l, d) == [src |-> s, kind |-> k, lang |-> l, dir |-> d]
EmptyBundle == Bundle("null", "empty", "", "")
FullBundle(c, d) == Bundle(c, "full", c, d)
NoMetaBundle(c) == Bundle(c, "nometa", "", "")
NullBundle(c) == Bundle(c, "null", "", "")

ServedBundles(c) ==
  {FullBundle(c, d) : d \in Dirs} \cup {NoMetaBundle(c), NullBundle(c)}

\* What a bundle request can produce.  "neterr": fetch rejects; "status":
\* response.ok is false; "unparseable": response.json() rejects; "json":
\* the parsed body.
BundleResponse(k, b) == [kind |-> k, body |-> b]
Responses(c) ==
  {BundleResponse(k, EmptyBundle) : k \in {"neterr", "status", "unparseable"}}
    \cup {BundleResponse("json", b) : b \in ServedBundles(c)}

\* navigator.language, already cut at '-'
BrowserLangs == {<<>>, <<"en", "US">>, <<"de", "DE">>}

\* the preferences an earlier visit can have stored
SavedCodes == {"en", "fr"}

\* ----------------------------------------------------------- JSON documents
\* A document is a function from the paths of its nodes to the nodes; a node
\* is an object, an array, a string or null.
ObjNode == [t |-> "obj", s |-> ""]
ArrNode == [t |-> "arr", s |-> ""]
NullNode == [t |-> "null", s |-> ""]
StrNode(x) == [t |-> "str", s |-> x]

\* the first ticker item of a language's bundle
TickerItem(c) ==
  CASE c = "ar" -> "khabar"
    [] c = "en" -> "news"
    [] OTHER -> "nouvelles"

\* the greeting of a language's bundle; the French one is still empty
Greeting(c) ==
  CASE c = "ar" -> "ahlan"
    [] c = "en" -> "hello"
    [] OTHER -> ""

ContentTree(c) ==
  (<<"a">> :> ObjNode) @@ (<<"a", "b">> :> ObjNode) @@
  (<<"a", "b", "c">> :> StrNode("X")) @@ (<<"a", "n">> :> NullNode) @@
  (<<"a", "e">> :> StrNode(Greeting(c))) @@
  (<<"ticker">> :> ObjNode) @@ (<<"ticker", "items">> :> ArrNode) @@
  (<<"ticker", "items", "0">> :> StrNode(TickerItem(c))) @@
  (<<"ticker", "items", "1">> :> StrNode("X"))

MetaTree(l, d) ==
  (<<"meta">> :> ObjNode) @@ (<<"meta", "lang">> :> StrNode(l)) @@
  (<<"meta", "dir">> :> StrNode(d))

\* the document a Bundle stands for
Tree(b) ==
  CASE b.kind = "full" -> (<<>> :> ObjNode) @@ MetaTree(b.lang, b.dir) @@ ContentTree(b.src)
    [] b.kind = "nometa" -> (<<>> :> ObjNode) @@ ContentTree(b.src)
    [] b.kind = "null" -> (<<>> :> NullNode)
    [] OTHER -> (<<>> :> ObjNode)

\* ------------------------------------------------------------------ lookup
\* A JavaScript value met by t(): a node of the document ("node"), the
\* length of an array ("length"), a member inherited from Object.prototype
\* ("inherited", a function), or the key string itself ("key").
NodeValue(p) == [kind |-> "node", path |-> p, name |-> ""]
LengthValue(p) == [kind |-> "length", path |-> p, name |-> "length"]
InheritedValue(p, k) == [kind |-> "inherited", path |-> p, name |-> k]
KeyValue(key) == [kind |-> "key", path |-> key, name |-> ""]
NoValue == [kind |-> "none", path |-> <<>>, name |-> ""]

\* names every object inherits from Object.prototype (a sample of them)
ObjectProtoKeys == {"constructor", "toString"}

\* `value && typeof value === 'object'`
IsObject(tree, v) == v.kind = "node" /\ tree[v.path].t \in {"obj", "arr"}

HasOwn(tree, v, k) ==
  \/ Append(v.path, k) \in DOMAIN tree
  \/ tree[v.path].t = "arr" /\ k = "length"

\* `k in value`: own and inherited properties
In(tree, v, k) == HasOwn(tree, v, k) \/ k \in ObjectProtoKeys

\* `value[k]`
Member(tree, v, k) ==
  IF Append(v.path, k) \in DOMAIN tree THEN NodeValue(Append(v.path, k))
  ELSE IF tree[v.path].t = "arr" /\ k = "length" THEN LengthValue(v.path)
  ELSE InheritedValue(v.path, k)

RECURSIVE Walk(_, _, _, _)
Walk(tree, value, keys, key) ==
  IF keys = <<>> THEN value
  ELSE IF IsObject(tree, value) /\ In(tree, value, Head(keys))
    THEN Walk(tree, Member(tree, value, Head(keys)), Tail(keys), key)
    ELSE KeyValue(key)

\* t(key) on a bundle; key is key.split('.')
T(b, key) == Walk(Tree(b), NodeValue(<<>>), key, key)

\* get(key)
Get(b, key) == T(b, key)

\* the keys looked up
Keys ==
  { <<"a">>, <<"a", "b">>, <<"a", "b", "c">>, <<"a", "z">>, <<"a", "n">>,
    <<"a", "n", "x">>, <<"a", "b", "c", "d">>, <<"z">>, <<"meta", "dir">>,
    <<"ticker", "items">>, <<"ticker", "items", "0">>,
    <<"ticker", "items", "length">>, <<"a", "toString">>, <<"constructor">>,
    <<"">> }

\* ------------------------------------------------------------ translatePage
\* the marked nodes of the page: the attribute that marks each selects what
\* is written (data-i18n: textContent, or innerHTML with data-i18n-html;
\* data-i18n-placeholder; data-i18n-title), and its value is the key
MarkedNode(target, key) == [target |-> target, key |-> key]
MarkedNodes ==
  { MarkedNode("text", <<"ticker", "items", "0">>),
    MarkedNode("html", <<"a", "e">>),
    MarkedNode("placeholder", <<"a", "z">>),
    MarkedNode("title", <<"a", "b", "c">>) }

\* what a node shows: the text of the static markup, a string of a bundle,
\* a key, or the string conversion of another value
Markup == [kind |-> "markup", s |-> "", key |-> <<>>]
Text(x) == [kind |-> "text", s |-> x, key |-> <<>>]
RawKey(key) == [kind |-> "key", s |-> "", key |-> key]
Converted(v) == [kind |-> v.kind, s |-> v.name, key |-> v.path]

\* the string a target shows once the value v is assigned to it
Rendered(tree, v) ==
  IF v.kind = "key" THEN RawKey(v.path)
  ELSE IF v.kind = "node" /\ tree[v.path].t \in {"str", "null"}
    THEN Text(tree[v.path].s)
  ELSE Converted(v)

\* `if (translation)`: null, the empty string and 0 are falsy
Truthy(tree, v) ==
  CASE v.kind = "key" -> v.path # <<"">>
    [] v.kind = "node" -> tree[v.path].t \in {"obj", "arr"}
                            \/ (tree[v.path].t = "str" /\ tree[v.path].s # "")
    [] v.kind = "length" -> Append(v.path, "0") \in DOMAIN tree
    [] OTHER -> TRUE

\* translatePage(): each marked node gets t(key) when that is truthy
TranslatePage(b) ==
  [n \in MarkedNodes |->
     IF Truthy(Tree(b), T(b, n.key)) THEN Rendered(Tree(b), T(b, n.key))
     ELSE page[n]]

\* getDirection(): translations.meta?.dir || 'ltr'; reading .meta of null throws
GetDirectionNoMeta(b) == IF b.kind = "null" THEN "throws" ELSE "ltr"
GetDirection(b) ==
  CASE b.kind = "null" -> "throws"
    [] b.kind = "full" -> b.dir
    [] OTHER -> "ltr"

IsRTL(b) == GetDirection(b) = "rtl"

\* the items of the array at path p, in index order
IndexKeys == <<"0", "1">>
RECURSIVE ArrayItems(_, _, _)
ArrayItems(tree, p, i) ==
  IF i > Len(IndexKeys) \/ Append(p, IndexKeys[i]) \notin DOMAIN tree THEN <<>>
  ELSE <<tree[Append(p, IndexKeys[i])].s>> \o ArrayItems(tree, p, i + 1)

\* getTickerContent(): get('ticker.items') when it is an array, else []
GetTickerContent(b) ==
  IF b.kind = "null" THEN <<>>
  ELSE LET items == Get(b, <<"ticker", "items">>) IN
    IF items.kind = "node" /\ Tree(b)[items.path].t = "arr"
      THEN ArrayItems(Tree(b), items.path, 1)
      ELSE <<>>

\* updateTicker(): the track holds the items twice
UpdateTicker(b) == GetTickerContent(b) \o GetTickerContent(b)

\* ---------------------------------------------------------------- registry
RegistryCodes ==
  IF languages.kind = "list"
    THEN {languages.list[k].code : k \in 1..Len(languages.list)}
    ELSE {}

ManifestParsed(m) == m.kind = "json" /\ ~m.isNull

\* loadLanguages(): this.languages after the manifest response m
LoadedLanguages(m) ==
  IF ManifestParsed(m)
    THEN (IF m.hasLanguages THEN ListOf(m.languages) ELSE Undefined)
    ELSE ListOf(FallbackLanguages)

\* loadLanguages(): this.defaultLang after the manifest response m
LoadedDefaultLang(m) ==
  IF ManifestParsed(m)
    THEN (IF m.defaultLang # "" THEN m.defaultLang ELSE "ar")
    ELSE defaultLang

\* -------------------------------------------------------- preference store
GetSavedLanguage == IF storageOK THEN storage ELSE "null"

\* saveLanguage(langCode): setItem, whose exception is caught
SaveLanguageOrig(langCode) ==
  IF storageOK THEN calls[Len(calls)].orig ELSE storage
SaveLanguage(langCode) == IF storageOK THEN langCode ELSE storage

\* whether saveLanguage() lets the exception of setItem out: its try/catch
\* turns it into a warning
SaveLanguageUncaught == ~storageOK
SaveLanguageThrows == FALSE

\* getBrowserLanguage() reads this.languages.find, which throws when
\* this.languages is not an array
BrowserLanguageThrows == browserLang # <<>> /\ languages.kind # "list"

GetBrowserLanguage ==
  IF browserLang = <<>> THEN "null"
  ELSE IF Head(browserLang) \in RegistryCodes THEN Head(browserLang)
  ELSE "null"

\* savedLang || browserLang || this.defaultLang
InitialLang ==
  IF GetSavedLanguage # "null" THEN GetSavedLanguage
  ELSE IF GetBrowserLanguage # "null" THEN GetBrowserLanguage
  ELSE defaultLang

\* ------------------------------------------------------------- setLanguage
\* A top-level call: the code it was called with, the code of the load it
\* awaits, the loads it has issued, and its result once it has resolved.
NewCall(c) ==
  [orig |-> c, code |-> c, loads |-> 1, status |-> "awaiting",
   result |-> FALSE, loaded |-> FALSE]

\* the catch block's guard: fall back unless already trying the default
RetryNever(langCode) == FALSE
RetryAlways(langCode) == TRUE
Retry(langCode) == langCode # defaultLang

\* the language the catch block retries with
FallbackLangHardcoded == "ar"
FallbackLang == defaultLang

\* fetch resolved, response.ok, and response.json() resolved
Parsed(r) == r.kind = "json"

\* lines 580-581: the bundle and the language a parsed response installs
NewTranslations(i, r) == r.body
NewCurrentLangOrig(i, r) == calls[i].orig
NewCurrentLangLatest(i, r) == calls[Len(calls)].code
NewCurrentLang(i, r) == calls[i].code

\* applyLanguage() throws on `this.translations.meta` of null and on
\* `meta.lang` of undefined
MetaThrows(b) == b.kind # "full"

\* updateLanguageSwitcher() throws on this.languages.find of a non-array
SwitcherThrows == languages.kind # "list"

\* updateLanguageSwitcher(): the flag shown for currentLang
NewFlag(code) ==
  IF \E k \in 1..Len(languages.list) : languages.list[k].code = code
    THEN languages.list[CHOOSE k \in 1..Len(languages.list) :
           /\ languages.list[k].code = code
           /\ \A j \in 1..(k - 1) : languages.list[j].code # code].flag
    ELSE flag

\* updateLanguageSwitcher() writes the flag image only: the options of the
\* dropdown stay as setupLanguageSwitcher() built them
OptionsAppended == switcher \o switcher
OptionsAfterUpdate == switcher

\* whether applyLanguage() reaches its dispatchEvent
DispatchesEarly(metaOK, switcherOK) == metaOK
Dispatches(metaOK, switcherOK) == metaOK /\ switcherOK

\* the detail of the languageChanged event
EventDetail(lang, meta) == [lang |-> lang, dir |-> meta.dir]

\* ------------------------------------------------------------------- state
\* lastLoad: the call, code and body of the load parsed last, whether
\* setLanguage then returned true (ok), and whether it repeated the load
\* before it (again)
NoLoad == [call |-> 0, code |-> "null", body |-> EmptyBundle, ok |-> FALSE,
           again |-> FALSE]
NoLookup == [key |-> <<>>, val |-> NoValue]
NoEvent == [lang |-> "null", dir |-> ""]

\* the state after `new I18n()`, with the page's static markup and the
\* browser's stored preference and language
Init ==
  /\ pc = "start"
  /\ languages = ListOf(<<>>)
  /\ defaultLang = "ar"
  /\ currentLang = "null"
  /\ translations = EmptyBundle
  /\ docLang = ""
  /\ docDir = ""
  /\ flag = ""
  /\ storageOK \in BOOLEAN
  /\ storage \in (IF storageOK THEN SavedCodes \cup {"null"} ELSE {"null"})
  /\ browserLang \in BrowserLangs
  /\ clicksLeft = MaxClicks
  /\ calls = <<>>
  /\ events = 0
  /\ lastEvent = NoEvent
  /\ switcher = <<>>
  /\ ticker = <<>>
  /\ page = [n \in MarkedNodes |-> Markup]
  /\ shown = FALSE
  /\ lastLoad = NoLoad
  /\ looked = NoLookup

manager == <<currentLang, translations, docLang, docDir, flag, storage, page, events,
             lastEvent, ticker, lastLoad>>
env == <<storageOK, browserLang>>

\* a visit with no stored preference and no browser language, and a user who
\* clicks often enough for two calls to overlap
RaceInit ==
  /\ pc = "start"
  /\ languages = ListOf(<<>>)
  /\ defaultLang = "ar"
  /\ currentLang = "null"
  /\ translations = EmptyBundle
  /\ docLang = ""
  /\ docDir = ""
  /\ flag = ""
  /\ storageOK = TRUE
  /\ storage = "null"
  /\ browserLang = <<>>
  /\ clicksLeft = MaxRaceClicks
  /\ calls = <<>>
  /\ events = 0
  /\ lastEvent = NoEvent
  /\ switcher = <<>>
  /\ ticker = <<>>
  /\ page = [n \in MarkedNodes |-> Markup]
  /\ shown = FALSE
  /\ lastLoad = NoLoad
  /\ looked = NoLookup

\* the language init()'s catch block calls setLanguage with
CatchLangDetected == InitialLang
CatchLang == defaultLang

\* init(), up to the end of loadLanguages(): the manifest response m arrives
LoadLanguages(m) ==
  /\ pc = "start"
  /\ languages' = LoadedLanguages(m)
  /\ defaultLang' = LoadedDefaultLang(m)
  /\ pc' = "loaded"
  /\ UNCHANGED <<manager, env, clicksLeft, calls, switcher, shown, looked>>

\* init(), from the preference to the call of setLanguage(initialLang);
\* an exception goes to the catch block, which calls setLanguage(defaultLang)
SelectInitial ==
  /\ pc = "loaded"
  /\ IF BrowserLanguageThrows
       THEN /\ calls' = Append(calls, NewCall(CatchLang))
            /\ pc' = "catch"
       ELSE /\ calls' = Append(calls, NewCall(InitialLang))
            /\ pc' = "initial"
  /\ UNCHANGED <<manager, env, clicksLeft, languages, defaultLang, switcher, shown, looked>>

\* setLanguage(): the response r of the load that call i awaits arrives;
\* the rest of the try block, or the catch block, runs to its end
Respond(i) ==
  /\ i <= Len(calls)
  /\ calls[i].status = "awaiting"
  /\ calls[i].loads < MaxLoads
  /\ \E r \in Responses(calls[i].code) :
     LET c == calls[i]
         parsed == Parsed(r)
         metaOK == parsed /\ ~MetaThrows(NewTranslations(i, r))
         switcherOK == ~SwitcherThrows
         applied == metaOK /\ switcherOK
         completes == applied /\ ~SaveLanguageThrows
         dispatched == Dispatches(metaOK, switcherOK)
     IN
       /\ translations' = IF parsed THEN NewTranslations(i, r) ELSE translations
       /\ currentLang' = IF parsed THEN NewCurrentLang(i, r) ELSE currentLang
       /\ docLang' = IF metaOK THEN translations'.lang ELSE docLang
       /\ docDir' = IF metaOK THEN translations'.dir ELSE docDir
       /\ flag' = IF applied THEN NewFlag(currentLang') ELSE flag
       /\ events' = IF dispatched THEN events + 1 ELSE events
       /\ lastEvent' = IF dispatched
                         THEN EventDetail(currentLang', translations')
                         ELSE lastEvent
       /\ ticker' = IF dispatched THEN UpdateTicker(translations') ELSE ticker
       /\ page' = IF metaOK THEN TranslatePage(translations') ELSE page
       /\ storage' = IF completes THEN SaveLanguage(c.code) ELSE storage
       /\ switcher' = IF applied THEN OptionsAfterUpdate ELSE switcher
       /\ lastLoad' = IF parsed
            THEN [call |-> i, code |-> c.code, body |-> r.body, ok |-> completes,
                  again |-> /\ completes /\ lastLoad.ok /\ lastLoad.call # i
                            /\ lastLoad.code = c.code /\ lastLoad.body = r.body]
            ELSE lastLoad
       /\ calls' = [calls EXCEPT ![i] =
            IF completes
              THEN [c EXCEPT !.status = "done", !.result = TRUE, !.loaded = TRUE]
            ELSE IF Retry(c.code)
              THEN [c EXCEPT !.code = FallbackLang, !.loads = @ + 1]
            ELSE [c EXCEPT !.status = "done", !.result = FALSE, !.loaded = parsed]]
  /\ UNCHANGED <<env, clicksLeft, pc, languages, defaultLang, shown, looked>>

\* init() after `await this.setLanguage(initialLang)`: setupLanguageSwitcher(),
\* whose this.languages.forEach throws on a non-array; then the catch block
\* calls setLanguage(defaultLang)
SetupLanguageSwitcher ==
  /\ pc = "initial"
  /\ calls[Len(calls)].status = "done"
  /\ IF languages.kind = "list"
       THEN /\ switcher' = [k \in 1..Len(languages.list) |-> languages.list[k].code]
            /\ pc' = "done"
            /\ calls' = calls
       ELSE /\ switcher' = switcher
            /\ pc' = "catch"
            /\ calls' = Append(calls, NewCall(CatchLang))
  /\ UNCHANGED <<manager, env, clicksLeft, languages, defaultLang, shown, looked>>

\* init(): the catch block's `await this.setLanguage(this.defaultLang)` returns
CatchDone ==
  /\ pc = "catch"
  /\ calls[Len(calls)].status = "done"
  /\ pc' = "done"
  /\ UNCHANGED <<manager, env, clicksLeft, languages, defaultLang, calls, switcher, shown, looked>>

\* the click handler of the k-th option of the switcher
Click(k) ==
  /\ pc = "done"
  /\ k \in 1..Len(switcher)
  /\ clicksLeft > 0
  /\ clicksLeft' = clicksLeft - 1
  /\ calls' = Append(calls, NewCall(switcher[k]))
  /\ shown' = FALSE
  /\ UNCHANGED <<manager, env, pc, languages, defaultLang, switcher, looked>>

\* the listeners setupLanguageSwitcher() registers after its forEach: they
\* exist once it has run to its end
SwitcherWired == pc = "done" /\ languages.kind = "list"

\* the click handler of .lang-toggle-btn; the user opens and closes the
\* dropdown while there is a click on an option still to make
Toggle ==
  /\ SwitcherWired
  /\ clicksLeft > 0
  /\ shown' = ~shown
  /\ UNCHANGED <<manager, env, clicksLeft, pc, languages, defaultLang, calls,
                 switcher, looked>>

\* the document's click handler, for a click outside .lang-selector
ClickOutside ==
  /\ SwitcherWired
  /\ shown
  /\ shown' = FALSE
  /\ UNCHANGED <<manager, env, clicksLeft, pc, languages, defaultLang, calls,
                 switcher, looked>>

\* init() makes at most two calls, and every click makes one
CallIds == 1..(MaxClicks + MaxRaceClicks + 2)

Next ==
  \/ \E m \in Manifests : LoadLanguages(m)
  \/ SelectInitial
  \/ \E i \in CallIds : Respond(i)
  \/ SetupLanguageSwitcher
  \/ CatchDone
  \/ \E k \in 1..3 : Click(k)
  \/ Toggle
  \/ ClickOutside

Spec == Init /\ [][Next]_vars

\* every fetch eventually responds or fails
FairSpec ==
  Spec /\ WF_vars(\E i \in CallIds : Respond(i))

\* and init() runs on after each of its awaits: the manifest fetch settles,
\* and the continuation of a settled await is always scheduled
InitFairSpec ==
  /\ FairSpec
  /\ WF_vars(\E m \in Manifests : LoadLanguages(m))
  /\ WF_vars(SelectInitial)
  /\ WF_vars(SetupLanguageSwitcher)
  /\ WF_vars(CatchDone)

\* overlapping calls
RaceSpec == RaceInit /\ [][Next]_vars

TypeOK ==
  /\ pc \in {"start", "loaded", "initial", "catch", "done"}
  /\ currentLang \in Codes \cup {"null"}
  /\ defaultLang \in Codes
  /\ clicksLeft \in Nat

\* a content consumer looks a key up in the active bundle
Lookup(key) ==
  /\ looked' = [key |-> key, val |-> Get(translations, key)]
  /\ UNCHANGED <<manager, env, clicksLeft, pc, languages, defaultLang, calls, switcher,
                 shown>>

\* the bundles t() can be asked about
AllBundles == {EmptyBundle} \cup UNION {ServedBundles(c) : c \in Codes}

LookupInit ==
  /\ pc = "start"
  /\ languages = ListOf(<<>>)
  /\ defaultLang = "ar"
  /\ currentLang = "null"
  /\ translations \in AllBundles
  /\ docLang = ""
  /\ docDir = ""
  /\ flag = ""
  /\ storageOK = TRUE
  /\ storage = "null"
  /\ browserLang = <<>>
  /\ clicksLeft = 0
  /\ calls = <<>>
  /\ events = 0
  /\ lastEvent = NoEvent
  /\ switcher = <<>>
  /\ ticker = <<>>
  /\ page = [n \in MarkedNodes |-> Markup]
  /\ shown = FALSE
  /\ lastLoad = NoLoad
  /\ looked = NoLookup

LookupNext == \E key \in Keys : Lookup(key)

\* lookups on every bundle
LookupSpec == LookupInit /\ [][LookupNext]_vars

\* ================================================================== claims
\* call i resolves in this step
Resolves(i) == calls[i].status = "awaiting" /\ calls'[i].status = "done"

\* C1: a call for a language other than defaultLang whose load fails, when
\* the load of defaultLang then succeeds, resolves with currentLang =
\* defaultLang; and init() whose initial language fails that way ends with
\* currentLang = defaultLang.
C1_FallbackToDefault ==
  [][/\ \A i \in 1..Len(calls) :
          (/\ Resolves(i)
           /\ calls'[i].orig # defaultLang
           /\ calls'[i].loads = 2
           /\ calls'[i].loaded) => currentLang' = defaultLang
     /\ (/\ pc = "initial" /\ pc' = "done"
         /\ calls[1].orig # defaultLang
         /\ calls[1].loads = 2
         /\ calls[1].loaded) => currentLang' = defaultLang]_vars

\* init() with saved preference "fr" whose load failed has ended on "ar"
C1_Witness ==
  /\ pc = "done"
  /\ Len(calls) = 1
  /\ calls[1].orig = "fr" /\ calls[1].loads = 2 /\ calls[1].result
  /\ defaultLang = "ar"
  /\ currentLang = "ar"

\* C2: a setLanguage call that returns failure (its load of defaultLang
\* failed) leaves currentLang and translations as they were.
C2_FailureKeepsState ==
  [][\A i \in 1..Len(calls) :
        (Resolves(i) /\ ~calls'[i].result /\ calls'[i].code = defaultLang)
          => (currentLang' = currentLang /\ translations' = translations)]_vars

\* C3: a call issues at most two loads, the second one for defaultLang and
\* only when the call was for another language; and every call resolves once
\* its fetches respond.
C3_SingleRetry ==
  /\ [](\A i \in 1..Len(calls) :
          /\ calls[i].loads <= 2
          /\ calls[i].loads = 2
               => (calls[i].code = defaultLang /\ calls[i].orig # defaultLang))
  /\ ((\E i \in 1..Len(calls) : calls[i].status = "awaiting")
        ~> (\A i \in 1..Len(calls) : calls[i].status = "done"))

\* a call has given up after its one retry
C3_Witness ==
  \E i \in 1..Len(calls) :
    /\ calls[i].status = "done" /\ ~calls[i].result
    /\ calls[i].loads = 2 /\ calls[i].orig # defaultLang

\* the direction of c's descriptor in the registry
DescriptorDir(c) ==
  languages.list[CHOOSE k \in 1..Len(languages.list) : languages.list[k].code = c].dir

\* C4 as stated: a call for a registry code that returns success ends with
\* currentLang = that code and isRTL() = (its descriptor's direction is rtl).
C4_AsStated ==
  [][\A i \in 1..Len(calls) :
        (Resolves(i) /\ calls'[i].result /\ calls'[i].orig \in RegistryCodes)
          => /\ currentLang' = calls'[i].orig
             /\ IsRTL(translations') <=> (DescriptorDir(calls'[i].orig) = "rtl")]_vars

\* C4 amended: a call whose own load of c succeeds ends with currentLang = c
\* and isRTL() = (meta.dir of the bundle loaded for c is rtl); a call that
\* succeeds through the fallback ends with currentLang = defaultLang.
C4_OwnLoadSucceeds ==
  [][\A i \in 1..Len(calls) :
        (Resolves(i) /\ calls'[i].result)
          => /\ lastLoad'.call = i
             /\ lastLoad'.body.src = calls'[i].code
             /\ IsRTL(translations') <=> (lastLoad'.body.dir = "rtl")
             /\ calls'[i].loads = 1 => currentLang' = calls'[i].orig
             /\ calls'[i].loads = 2 => currentLang' = defaultLang]_vars

\* a registry language was loaded whose bundle says rtl while its descriptor
\* says ltr
C4_Witness ==
  /\ Len(calls) >= 1
  /\ calls[Len(calls)].status = "done" /\ calls[Len(calls)].result
  /\ calls[Len(calls)].loads = 1
  /\ lastLoad.call = Len(calls)
  /\ currentLang = calls[Len(calls)].orig
  /\ currentLang \in RegistryCodes
  /\ IsRTL(translations)
  /\ DescriptorDir(currentLang) = "ltr"

\* init() has run its try block to the end and a language is active
InitSucceeded ==
  pc = "done" /\ calls[1].result /\ Len(switcher) > 0

\* C5: once init has succeeded, currentLang is a code of the registry.
C5_CurrentLangInRegistry ==
  InitSucceeded => currentLang \in RegistryCodes

\* C6: once a bundle has been installed, the document's lang and dir are
\* the meta.lang and meta.dir of the bundle lookups read.
C6_DocumentMatchesBundle ==
  translations.kind # "empty"
    => /\ translations.kind = "full"
       /\ docLang = translations.lang
       /\ docDir = translations.dir

\* C7: languageChanged is dispatched in exactly the steps in which a call
\* resolves with success, once, with detail {currentLang, direction of the
\* active bundle}.
C7_OneEventPerSuccess ==
  [][IF \E i \in 1..Len(calls) : Resolves(i) /\ calls'[i].result
       THEN /\ events' = events + 1
            /\ lastEvent' = [lang |-> currentLang', dir |-> GetDirection(translations')]
       ELSE /\ events' = events
            /\ lastEvent' = lastEvent]_vars

\* init's call failed and sent nothing; a later call that fell back to
\* defaultLang succeeded and sent the one event
C7_Witness ==
  /\ Len(calls) = 2
  /\ calls[1].status = "done" /\ ~calls[1].result
  /\ calls[2].status = "done" /\ calls[2].result /\ calls[2].loads = 2
  /\ events = 1
  /\ lastEvent.lang = defaultLang

\* C8: whichever load completed last determines currentLang and the active
\* bundle, whatever the order in which the calls were issued.
C8_LastLoadWins ==
  lastLoad.call # 0
    => (currentLang = lastLoad.code /\ translations = lastLoad.body)

\* two overlapping calls both loaded, the one issued first completed last,
\* and its language is the current one
C8_Witness ==
  /\ Len(calls) = 3
  /\ calls[2].status = "done" /\ calls[2].result /\ calls[2].loads = 1
  /\ calls[3].status = "done" /\ calls[3].result /\ calls[3].loads = 1
  /\ calls[2].orig # calls[3].orig
  /\ lastLoad.call = 2
  /\ currentLang = calls[2].orig

\* every segment of key names an own property along the path
RECURSIVE Exists(_, _, _)
Exists(tree, p, keys) ==
  IF keys = <<>> THEN TRUE
  ELSE /\ tree[p].t \in {"obj", "arr"}
       /\ \/ /\ Append(p, Head(keys)) \in DOMAIN tree
             /\ Exists(tree, Append(p, Head(keys)), Tail(keys))
          \/ /\ tree[p].t = "arr"
             /\ keys = <<"length">>

\* C9: a lookup returns the value at the leaf when every segment exists in
\* the bundle, and the key itself when a segment is missing.
C9_LookupPolicy ==
  looked.key # <<>>
    => IF Exists(Tree(translations), <<>>, looked.key)
         THEN /\ looked.val.kind \in {"node", "length"}
              /\ looked.val.kind = "node" => looked.val.path = looked.key
         ELSE looked.val = KeyValue(looked.key)

\* the manifest response m is a failure of the manifest load
ManifestFailed(m) == ~(ManifestParsed(m) /\ m.hasLanguages)

\* C10: after loadLanguages the registry is a list with at least one
\* language, and after a failed manifest load it is the two fallback
\* descriptors with defaultLang "ar".
C10_RegistryNeverFails ==
  [][\A m \in Manifests :
        LoadLanguages(m)
          => /\ languages'.kind = "list"
             /\ Len(languages'.list) >= 1
             /\ ManifestFailed(m)
                  => (languages' = ListOf(FallbackLanguages) /\ defaultLang' = "ar")]_vars

\* what a user of the page can observe of the manager
Observable ==
  <<currentLang, translations, docLang, docDir, flag, storage, switcher, ticker,
    page>>

\* C11: a successful setLanguage(c) that repeats the successful load before
\* it (same language, same response) leaves the observable state as it was;
\* in particular the switcher has no more options than before.
C11_Idempotent ==
  [][\A i \in 1..Len(calls) :
        (/\ Resolves(i) /\ calls'[i].result
         /\ lastLoad.ok
         /\ lastLoad.code = calls'[i].code
         /\ lastLoad.body = lastLoad'.body)
          => /\ Observable' = Observable
             /\ Len(switcher') = Len(switcher)]_vars

\* a second successful call for the same language got the same response
C11_Witness ==
  /\ Len(calls) = 2
  /\ calls[1].result /\ calls[2].result
  /\ calls[1].orig = calls[2].orig
  /\ lastLoad.call = 2
  /\ lastLoad.again
  /\ Len(switcher) = Len(languages.list)

\* C12: init() requests the saved preference if there is one, else the
\* browser language's primary subtag if it is a code of the Registry, else
\* defaultLang; and when the load of that language succeeds, init() ends with
\* currentLang equal to it.
C12_InitialChoice ==
  [][/\ (pc = "loaded" /\ pc' # "loaded")
          => calls'[Len(calls')].orig = InitialLang
     /\ (pc # "done" /\ pc' = "done" /\ calls[1].result /\ calls[1].loads = 1)
          => currentLang' = calls[1].orig]_vars

\* C13: with storage available, the step in which a setLanguage call returns
\* true leaves exactly its code in the preference store, and that code is
\* currentLang, whatever other calls are in flight; every other step, a
\* failed call's included, leaves the preference store alone.
C13_PreferenceFollowsSuccess ==
  [][storageOK =>
       IF \E i \in 1..Len(calls) : Resolves(i) /\ calls'[i].result
         THEN storage' = currentLang' /\ storage' \in Codes
         ELSE storage' = storage]_vars

\* two overlapping calls: the one issued first returned true last, after its
\* own fallback, and the store holds the language it activated
C13_Witness ==
  /\ storageOK
  /\ Len(calls) >= 3
  /\ calls[2].result /\ calls[3].result
  /\ calls[2].loads = 2
  /\ calls[3].code # calls[2].code
  /\ lastLoad.call = 2
  /\ storage = calls[2].code
  /\ storage = currentLang

\* init()'s choice when the store holds no preference
EmptyStoreInitial ==
  IF GetBrowserLanguage # "null" THEN GetBrowserLanguage ELSE defaultLang

\* C14: with the persistence mechanism unavailable, reading the preference
\* gives null and no step writes it; init() requests the language it would
\* request with an empty store; and a call whose load parsed still installs
\* its language and bundle and returns true exactly when the bundle could be
\* applied.
C14_StoreNeverThrows ==
  [][~storageOK =>
       /\ GetSavedLanguage = "null"
       /\ storage' = storage
       /\ (pc = "loaded" /\ pc' = "initial")
            => calls'[1].orig = EmptyStoreInitial
       /\ \A i \in 1..Len(calls) :
            (Resolves(i) /\ calls'[i].loaded)
              => /\ currentLang' = calls'[i].code
                 /\ translations' = lastLoad'.body
                 /\ lastLoad'.call = i
                 /\ calls'[i].result
                      <=> (~MetaThrows(translations') /\ ~SwitcherThrows)]_vars

\* storage is unavailable, init() chose the browser's language and the user
\* then switched to another one; both calls returned true
C14_Witness ==
  /\ ~storageOK
  /\ pc = "done"
  /\ Len(calls) = 2
  /\ calls[1].orig = "en" /\ calls[1].result
  /\ calls[2].orig = "ar" /\ calls[2].result
  /\ currentLang = "ar"
  /\ translations.src = "ar"
  /\ storage = "null"

\* C15: whatever the manifest, the bundles and the store do, init() runs to
\* its end; and when a step of its try block throws, the catch block calls
\* setLanguage(defaultLang), whatever the preference and the browser say.
C15_NeverFatal ==
  /\ <>(pc = "done")
  /\ [][(pc # "catch" /\ pc' = "catch")
         => /\ Len(calls') = Len(calls) + 1
            /\ calls'[Len(calls')].orig = defaultLang
            /\ calls'[Len(calls')].status = "awaiting"]_vars

\* init() has ended through its catch block, with a manifest that has no
\* language list, a default bundle that did not load and no storage
C15_Witness ==
  /\ pc = "done"
  /\ ~storageOK
  /\ languages.kind = "undefined"
  /\ Len(calls) = 2
  /\ calls[2].orig = defaultLang
  /\ calls[2].status = "done" /\ ~calls[2].loaded
  /\ currentLang = "null"

\* C16: init() ends with currentLang unset only if a load of the defaultLang
\* bundle was issued and failed: every call that has resolved by then ended on
\* a failed load of defaultLang. So if the defaultLang bundle loads, init()
\* ends with an active language.
C16_FailedOnlyAfterDefault ==
  (pc = "done" /\ currentLang = "null")
    => /\ calls[1].status = "done"
       /\ \A i \in 1..Len(calls) :
            calls[i].status = "done"
              => (calls[i].code = defaultLang /\ ~calls[i].loaded /\ ~calls[i].result)

\* init() has ended without a language: the saved language failed to load
\* and so did the default
C16_Witness ==
  /\ pc = "done"
  /\ currentLang = "null"
  /\ Len(calls) = 1
  /\ calls[1].orig # defaultLang
  /\ calls[1].loads = 2
  /\ translations = EmptyBundle

\* C17: a parsed body without the meta entry is a load failure like a
\* non-success status: it never becomes the active bundle and never changes
\* currentLang; so the active bundle is the initial empty one while
\* currentLang is unset, and a bundle with meta from then on.
C17_MalformedIsLoadFailure ==
  /\ translations.kind \in {"empty", "full"}
  /\ currentLang = "null" <=> translations.kind = "empty"

\* C18: in the step in which a setLanguage call returns true, every marked
\* node comes to show t(key) of the newly active bundle (the raw key when
\* the key does not resolve), so none keeps what it showed before.
C18_PageShowsNewBundle ==
  [][\A i \in 1..Len(calls) :
        (Resolves(i) /\ calls'[i].result)
          => \A n \in MarkedNodes :
               page'[n] = Rendered(Tree(translations'), T(translations', n.key))]_vars

\* C19: when init() ends, on either of its paths, the switcher has one option
\* per descriptor of the Registry, in order; a click on an option calls
\* setLanguage with the option's code and closes the dropdown; and in the
\* step in which a setLanguage call returns true the flag shown becomes the
\* flag of the descriptor whose code is currentLang.
C19_SwitcherReflectsRegistry ==
  [][/\ (pc # "done" /\ pc' = "done")
          => /\ Len(switcher') = Len(languages.list)
             /\ \A k \in 1..Len(switcher') : switcher'[k] = languages.list[k].code
     /\ (Len(calls') = Len(calls) + 1 /\ pc = "done")
          => /\ \E k \in 1..Len(switcher) : calls'[Len(calls')].orig = switcher[k]
             /\ ~shown'
     /\ \A i \in 1..Len(calls) :
          (Resolves(i) /\ calls'[i].result)
            => \E k \in 1..Len(languages.list) :
                 /\ languages.list[k].code = currentLang'
                 /\ flag' = languages.list[k].flag]_vars

\* C20: getDirection() never throws and gives meta.dir of the active bundle
\* when it has one and "ltr" otherwise, before any load and after a failed
\* one too; isRTL() is true exactly for "rtl".
C20_DirectionTotal ==
  /\ GetDirection(translations) # "throws"
  /\ GetDirection(translations) =
       (IF translations.kind = "full" THEN translations.dir ELSE "ltr")
  /\ IsRTL(translations) <=> (translations.kind = "full" /\ translations.dir = "rtl")

\* C21: in every state, whatever calls overlap and whichever of their loads
\* fail, the active bundle is the one fetched for the code in currentLang,
\* both unset before the first load: lines 580-581 run without an await
\* between them, so no state has one updated without the other.
C21_BundleOfCurrentLang ==
  /\ translations.src = currentLang
  /\ currentLang = "null" <=> translations = EmptyBundle

\* three calls have resolved, one true and one false among them; the call
\* issued before the last one installed its bundle last, after its fallback
C21_Witness ==
  /\ Len(calls) = 3
  /\ \A i \in 1..3 : calls[i].status = "done"
  /\ \E i, j \in 1..3 : calls[i].result /\ ~calls[j].result
  /\ lastLoad.call = 2
  /\ calls[2].loads = 2
  /\ calls[3].code # calls[2].code
  /\ translations.src = calls[2].code
  /\ currentLang = calls[2].code

\* C22: a call returns true exactly when a bundle became active during it,
\* by its own load or by the fallback alike, and then currentLang is the
\* code it was called with or defaultLang; it returns false only when the
\* load of defaultLang failed.
C22_ResultMeansActive ==
  [][\A i \in 1..Len(calls) :
        Resolves(i)
          => /\ calls'[i].result <=> calls'[i].loaded
             /\ calls'[i].result
                  => /\ lastLoad'.call = i
                     /\ translations' = lastLoad'.body
                     /\ currentLang' \in {calls'[i].orig, defaultLang}
             /\ ~calls'[i].result => calls'[i].code = defaultLang]_vars

\* C23: in a step that dispatches languageChanged the ticker track comes to
\* hold the active bundle's ticker.items twice in order (nothing when they
\* are not a list); hence a step that changes the active bundle leaves the
\* track with the new bundle's items.
C23_TickerFollowsBundle ==
  [][/\ events' # events
          => /\ ticker' = GetTickerContent(translations') \o GetTickerContent(translations')
             /\ Len(ticker') = 2 * Len(GetTickerContent(translations'))
     /\ translations' # translations
          => ticker' = UpdateTicker(translations')]_vars

====
